---- MODULE Spec2Model ----
(***************************************************************************)
(* TicTacToe with a Monte Carlo rollout agent (src/tictactoe.py).          *)
(*                                                                         *)
(* A TicTacToe object is a record of its scalar attributes plus a          *)
(* reference `board` into `arrays`, the store of numpy arrays: Python      *)
(* attributes hold references, so two objects may name the same array.     *)
(* Methods are operators from (self, arrays, arguments) to the new self,   *)
(* the new store and what the call returns or raises.                      *)
(***************************************************************************)
EXTENDS Integers, Sequences, FiniteSets, TLC

\* Bounds of the model.
CoordSpan == 1          \* move() is tried on coordinates -CoordSpan .. 2+CoordSpan
MaxDifficulty == 2      \* Agent(difficulty) for difficulty in 1 .. MaxDifficulty
MaxEmpty == 3           \* a search with rollouts starts on at most MaxEmpty empty cells
MaxGrids == 1           \* at most MaxGrids searches with rollouts per run

Idx == 0 .. 2
Cells == Idx \X Idx
Coord == (0 - CoordSpan) .. (2 + CoordSpan)
Positions == Coord \X Coord

LiveRef == 0            \* the array of the game built by main.py
CopyRef == 1            \* the array a deepcopy allocates

\* Python's None, and a value that is not None, as sets of at most one value.
NoneVal == {}
Some(v) == {v}

\* np.zeros((3, 3)) without the + 5.
ZeroGrid == [c \in Cells |-> 0]

\* np.zeros((3, 3)) + 5
EmptyGrid == [c \in Cells |-> 5]

\* TicTacToe.__init__
TicTacToe_init == [board |-> LiveRef, player |-> "x", complete |-> FALSE,
                   number_of_moves |-> 0]

\* Agent.__init__ (grids is kept as the number of grids appended: the program
\* only ever appends to that list).
Agent_init(difficulty) == [difficulty |-> difficulty, wins |-> 0, losses |-> 0,
                           draws |-> 0, grids |-> 0]

\* What a call hands back: the exception it raised ("" when it returned), and
\* the returned next_state / reward / action, each None or a value.
Returned(op, next_state, reward, action) ==
    [op |-> op, exc |-> "", next_state |-> next_state, reward |-> reward,
     action |-> action]
Raised(op, exc) ==
    [op |-> op, exc |-> exc, next_state |-> NoneVal, reward |-> NoneVal,
     action |-> NoneVal]

\* numpy indexing of an axis of length 3: -3 .. 2 are in range, negative
\* indices count from the end, anything else raises IndexError.
InRange(k) == k >= -3 /\ k <= 2
Wrap(k) == IF k < 0 THEN k + 3 ELSE k

\* sum(self.board[:, i]) and sum(self.board[i, :])
col_sum(g, i) == g[<<0, i>>] + g[<<1, i>>] + g[<<2, i>>]
row_sum(g, i) == g[<<i, 0>>] + g[<<i, 1>>] + g[<<i, 2>>]
fwd_diag(g) == g[<<0, 0>>] + g[<<1, 1>>] + g[<<2, 2>>]
bwd_diag(g) == g[<<0, 2>>] + g[<<1, 1>>] + g[<<2, 0>>]

\* The for loop of rewards(): the value it returns at index i or later,
\* 0 when it runs to its end without returning.
RECURSIVE rewards_loop(_, _)
rewards_loop(g, i) ==
    IF i = 3 THEN 0
    ELSE IF col_sum(g, i) = 3 \/ row_sum(g, i) = 3 THEN 1
    ELSE IF col_sum(g, i) = 0 \/ row_sum(g, i) = 0 THEN -1
    ELSE rewards_loop(g, i + 1)

\* An evaluation that forgets the backward diagonal.
rewards_no_bwd_diag(g) ==
    IF rewards_loop(g, 0) # 0 THEN rewards_loop(g, 0)
    ELSE IF fwd_diag(g) = 3 THEN 1
    ELSE IF fwd_diag(g) = 0 THEN -1
    ELSE 0

\* The value rewards() returns on grid g.
rewards_value(g) ==
    IF rewards_loop(g, 0) # 0 THEN rewards_loop(g, 0)
    ELSE IF fwd_diag(g) = 3 THEN 1
    ELSE IF fwd_diag(g) = 0 THEN -1
    ELSE IF bwd_diag(g) = 3 THEN 1
    ELSE IF bwd_diag(g) = 0 THEN -1
    ELSE 0

\* TicTacToe.rewards: every return of a nonzero value sets complete first.
rewards(self, arr) ==
    LET v == rewards_value(arr[self.board])
    IN  [self |-> IF v # 0 THEN [self EXCEPT !.complete = TRUE] ELSE self,
         reward |-> v]

\* A reset that forgets to clear number_of_moves.
reset_keeps_count(self, arr) ==
    [self |-> [self EXCEPT !.player = "x", !.complete = FALSE],
     arrays |-> [arr EXCEPT ![self.board] = EmptyGrid]]

\* TicTacToe.reset
reset(self, arr) ==
    [self |-> [self EXCEPT !.player = "x", !.number_of_moves = 0,
                           !.complete = FALSE],
     arrays |-> [arr EXCEPT ![self.board] = EmptyGrid]]

\* A move that forgets to switch the player.
same_player(player) == player

\* The player after a valid move of `player` (lines 138-144).
next_player(player) == IF player = "o" THEN "x" ELSE "o"

\* Pieces the wrong way round.
piece_swapped(player) == IF player = "o" THEN 1 ELSE 0

\* The piece `player` places (lines 138-144).
piece_of(player) == IF player = "o" THEN 0 ELSE 1

\* A check that only sees the cells of 'x' as taken.
occupied_by_x(g, c) == g[c] = 1

\* Whether move() takes its early return on cell c of grid g (line 134).
occupied(g, c) == g[c] # 5

\* TicTacToe.move
move(self, arr, position) ==
    LET i == position[1]
        j == position[2]
    IN  IF ~(InRange(i) /\ InRange(j))
        THEN [self |-> self, arrays |-> arr, ret |-> Raised("move", "IndexError")]
        ELSE LET c == <<Wrap(i), Wrap(j)>>
             IN  IF occupied(arr[self.board], c)
                 THEN [self |-> self, arrays |-> arr,
                       ret |-> Returned("move", NoneVal, NoneVal, NoneVal)]
                 ELSE LET arr2 == [arr EXCEPT ![self.board][c] = piece_of(self.player)]
                          self2 == [self EXCEPT !.player = next_player(self.player),
                                                !.number_of_moves = @ + 1]
                          r == rewards(self2, arr2)
                      IN  [self |-> r.self, arrays |-> arr2,
                           ret |-> Returned("move", Some(self.board),
                                            Some(r.reward), NoneVal)]

\* Agent.move_selection: the cells of `state` equal to 5, in np.where's
\* row-major order.
RECURSIVE where5(_, _)
where5(state, k) ==
    IF k = 9 THEN <<>>
    ELSE LET c == <<k \div 3, k % 3>>
         IN  (IF state[c] = 5 THEN <<c>> ELSE <<>>) \o where5(state, k + 1)
move_selection(state) == where5(state, 0)

\* A call that has not returned yet, and no call at all.
Pending(op) == Returned(op, NoneVal, NoneVal, NoneVal)
NoCall == Pending("")

\* The moves select_action(state) can return under the random policy:
\* possible_moves[index] for the index np.random.choice draws (lines 61-67).
random_moves(state) ==
    {move_selection(state)[k] : k \in 1 .. Len(move_selection(state))}

\* A random policy that returns None when no move is left.
random_or_none(state) ==
    IF move_selection(state) = <<>>
    THEN {Returned("random", NoneVal, NoneVal, NoneVal)}
    ELSE {Returned("random", NoneVal, NoneVal, Some(a)) : a \in random_moves(state)}

\* select_action(state) under the random policy (lines 58-67): what the call
\* can hand back. np.random.choice(0) raises ValueError.
select_action_random(state) ==
    IF move_selection(state) = <<>>
    THEN {Raised("random", "ValueError")}
    ELSE {Returned("random", NoneVal, NoneVal, Some(a)) : a \in random_moves(state)}

\* A shortcut taken when no move is left instead of one.
no_move_left(possible_moves) == Len(possible_moves) = 0

\* possible_moves.shape[0] == 1 (line 78)
one_move_left(possible_moves) == Len(possible_moves) = 1

\* copy.copy: a new object whose board is the same array.
shallow_copy(obj, arr) == [obj |-> obj, arrays |-> arr]

\* copy.deepcopy(board): a new object with a new array of the same contents.
deepcopy(obj, arr) ==
    [obj |-> [obj EXCEPT !.board = CopyRef],
     arrays |-> [r \in DOMAIN arr \cup {CopyRef} |-> arr[obj.board]] @@ arr]

\* The keys of action_dict, and its value at a key.
keys(d) == {d[k][1] : k \in 1 .. Len(d)}
get(d, key) == d[CHOOSE k \in 1 .. Len(d) : d[k][1] = key][2]

\* action_dict[action] += reward on a defaultdict(int): a missing key is
\* inserted last with 0 + reward, a present one keeps its place (line 85).
add(d, action, r) ==
    IF action \in keys(d)
    THEN [k \in 1 .. Len(d) |->
             IF d[k][1] = action THEN <<action, d[k][2] + r>> ELSE d[k]]
    ELSE Append(d, <<action, r>>)

\* A maximum that keeps the last of the best keys.
max_key_last(d) ==
    LET k == CHOOSE k \in 1 .. Len(d) :
                 /\ \A m \in 1 .. Len(d) : d[m][2] <= d[k][2]
                 /\ \A m \in k + 1 .. Len(d) : d[m][2] < d[k][2]
    IN  d[k][1]

\* max(action_dict, key=action_dict.get): the first key, in insertion order,
\* whose value no other key exceeds (line 96).
max_key(d) ==
    LET k == CHOOSE k \in 1 .. Len(d) :
                 /\ \A m \in 1 .. Len(d) : d[m][2] <= d[k][2]
                 /\ \A m \in 1 .. k - 1 : d[m][2] < d[k][2]
    IN  d[k][1]

\* A while condition that forgets the count of moves.
playing_until_complete(self) == self.complete = FALSE

\* The while condition of simulate_game (line 291).
playing(self) == self.complete = FALSE /\ self.number_of_moves # 9

VARIABLES
    board,          \* the TicTacToe object of main.py
    arrays,         \* the numpy arrays, by reference
    agent,          \* the Agent object of main.py
    ret,            \* what the call that just ended returned or raised
    pc,             \* where the caller stands: "idle" between calls, "returned"
                    \* with a result in hand, "raised" after an exception (nothing
                    \* in the program catches one), "for" / "while" inside
                    \* select_action(policy='search')
    i,              \* the rollout index of its for loop
    action_dict,    \* its action_dict, in insertion order: <<key, value>> pairs
    virtual_board,  \* its virtual_board (a sequence of at most one object)
    player_move,    \* simulate_game's player_move
    reward,         \* simulate_game's reward (None while unbound)
    driver          \* the running play_game / computer_play_game call: its name,
                    \* where it stands and its local reward (name "" when the
                    \* methods are called one by one)

vars == <<board, arrays, agent, ret, pc, i, action_dict, virtual_board,
          player_move, reward, driver>>

\* No play_game / computer_play_game call is running.
NoDriver == [name |-> "", at |-> "", reward |-> NoneVal]

\* main.py lines 14 and 17: the agent and the board, before any call.
Init ==
    /\ board = TicTacToe_init
    /\ arrays = [r \in {LiveRef} |-> EmptyGrid]
    /\ \E difficulty \in 1 .. MaxDifficulty : agent = Agent_init(difficulty)
    /\ ret = NoCall
    /\ pc = "idle"
    /\ i = 0
    /\ action_dict = <<>>
    /\ virtual_board = <<>>
    /\ player_move = <<>>
    /\ reward = NoneVal
    /\ driver = NoDriver

\* board.reset()
Reset ==
    /\ pc = "idle"
    /\ LET r == reset(board, arrays)
       IN  /\ board' = r.self
           /\ arrays' = r.arrays
    /\ ret' = Returned("reset", NoneVal, NoneVal, NoneVal)
    /\ pc' = "returned"
    /\ UNCHANGED <<driver, agent, i, action_dict, virtual_board, player_move, reward>>

\* board.move(position)
Move(position) ==
    /\ pc = "idle"
    /\ LET r == move(board, arrays, position)
       IN  /\ board' = r.self
           /\ arrays' = r.arrays
           /\ ret' = r.ret
           /\ pc' = IF r.ret.exc = "" THEN "returned" ELSE "raised"
    /\ UNCHANGED <<driver, agent, i, action_dict, virtual_board, player_move, reward>>

\* board.rewards()
Rewards ==
    /\ pc = "idle"
    /\ LET r == rewards(board, arrays)
       IN  /\ board' = r.self
           /\ ret' = Returned("rewards", NoneVal, Some(r.reward), NoneVal)
    /\ pc' = "returned"
    /\ UNCHANGED <<driver, arrays, agent, i, action_dict, virtual_board, player_move,
                   reward>>

\* The caller goes on after a call that returned; the result is dropped.
Continue ==
    /\ pc = "returned"
    /\ pc' = "idle"
    /\ ret' = NoCall
    /\ UNCHANGED <<driver, board, arrays, agent, i, action_dict, virtual_board,
                   player_move, reward>>

Next ==
    \/ Reset
    \/ \E position \in Positions : Move(position)
    \/ Rewards
    \/ Continue

Spec == Init /\ [][Next]_vars

\* agent.select_action(board.board): the random policy (lines 58-67).
\* np.random.choice(0) raises ValueError.
SelectRandom ==
    /\ pc = "idle"
    /\ \E r \in select_action_random(arrays[board.board]) :
           /\ ret' = r
           /\ pc' = IF r.exc = "" THEN "returned" ELSE "raised"
    /\ UNCHANGED <<driver, board, arrays, agent, i, action_dict, virtual_board,
                   player_move, reward>>

\* agent.select_action(board.board, policy='search', board=board), up to the
\* for loop (lines 58-82): returns at once when one move is left.
SearchCall ==
    /\ pc = "idle"
    /\ LET possible_moves == move_selection(arrays[board.board])
       IN  IF one_move_left(possible_moves)
           THEN /\ ret' = Returned("search", NoneVal, NoneVal,
                                   Some(possible_moves[1]))
                /\ pc' = "returned"
                /\ UNCHANGED <<i, action_dict>>
           ELSE /\ Len(possible_moves) <= MaxEmpty
                /\ agent.grids < MaxGrids
                /\ ret' = Pending("search")
                /\ pc' = "for"
                /\ i' = 0
                /\ action_dict' = <<>>
    /\ UNCHANGED <<driver, board, arrays, agent, virtual_board, player_move, reward>>

\* One pass of the for loop up to the while loop of simulate_game
\* (lines 82-84, 289).
Rollout ==
    /\ pc = "for"
    /\ i < agent.difficulty
    /\ LET c == deepcopy(board, arrays)
       IN  /\ virtual_board' = <<c.obj>>
           /\ arrays' = c.arrays
    /\ player_move' = <<>>
    /\ reward' = NoneVal
    /\ pc' = "while"
    /\ UNCHANGED <<driver, board, agent, ret, i, action_dict>>

\* One pass of the while loop of simulate_game (lines 291-299).
SimulateMove ==
    /\ pc = "while"
    /\ playing(virtual_board[1])
    /\ LET self == virtual_board[1]
           state == arrays[self.board]
       IN  IF move_selection(state) = <<>>
           THEN /\ ret' = Raised("search", "ValueError")
                /\ pc' = "raised"
                /\ UNCHANGED <<arrays, virtual_board, player_move, reward>>
           ELSE \E action \in random_moves(state) :
                    LET r == move(self, arrays, action)
                    IN  /\ player_move' = IF self.player = "x"
                                          THEN Append(player_move, action)
                                          ELSE player_move
                        /\ virtual_board' = <<r.self>>
                        /\ arrays' = r.arrays
                        /\ reward' = r.ret.reward
                        /\ UNCHANGED <<ret, pc>>
    /\ UNCHANGED <<driver, board, agent, i, action_dict>>

\* The return of simulate_game and the rest of the pass of the for loop
\* (lines 301, 84-85): reading an unbound reward raises UnboundLocalError,
\* player_move[0] of an empty list raises IndexError. On return the locals
\* of simulate_game die; virtual_board lives on until the next pass rebinds it.
SimulateReturn ==
    /\ pc = "while"
    /\ ~playing(virtual_board[1])
    /\ IF reward = NoneVal
       THEN /\ ret' = Raised("search", "UnboundLocalError")
            /\ pc' = "raised"
            /\ UNCHANGED <<i, action_dict, player_move, reward>>
       ELSE IF player_move = <<>>
       THEN /\ ret' = Raised("search", "IndexError")
            /\ pc' = "raised"
            /\ UNCHANGED <<i, action_dict, player_move, reward>>
       ELSE /\ \E r \in reward : action_dict' = add(action_dict, player_move[1], r)
            /\ i' = i + 1
            /\ pc' = "for"
            /\ ret' = ret
            /\ player_move' = <<>>
            /\ reward' = NoneVal
    /\ UNCHANGED <<driver, board, arrays, agent, virtual_board>>

\* The end of select_action (lines 87-98): the grid of values is appended to
\* agent.grids and the best key returned; the locals and the copy die.
SearchReturn ==
    /\ pc = "for"
    /\ i = agent.difficulty
    /\ agent' = [agent EXCEPT !.grids = @ + 1]
    /\ ret' = Returned("search", NoneVal, NoneVal, Some(max_key(action_dict)))
    /\ pc' = "returned"
    /\ i' = 0
    /\ action_dict' = <<>>
    /\ virtual_board' = <<>>
    /\ player_move' = <<>>
    /\ reward' = NoneVal
    /\ arrays' = [r \in {LiveRef} |-> arrays[r]]
    /\ UNCHANGED <<driver, board>>

NextSearch ==
    \/ Reset
    \/ \E position \in Positions : Move(position)
    \/ Rewards
    \/ Continue
    \/ SelectRandom
    \/ SearchCall
    \/ Rollout
    \/ SimulateMove
    \/ SimulateReturn
    \/ SearchReturn

SpecSearch == Init /\ [][NextSearch]_vars

\* Bound of the games run by the drivers.
MaxDriverDifficulty == 1    \* Agent(difficulty) for difficulty in 1 .. MaxDriverDifficulty

\* What the human can type at input("Enter a move: ") (line 218): the keys of
\* the board, keys off the board, a numeral that is not a key of
\* convert_action, and a text that is no numeral.
HumanInputs == {"0", "1", "2", "3", "4", "5", "6", "7", "8", "9", "10", "01", "x"}

\* int(action): defined on the numerals, ValueError elsewhere (line 220).
int ==
    ("0" :> 0) @@ ("1" :> 1) @@ ("2" :> 2) @@ ("3" :> 3) @@ ("4" :> 4)
        @@ ("5" :> 5) @@ ("6" :> 6) @@ ("7" :> 7) @@ ("8" :> 8) @@ ("9" :> 9)
        @@ ("10" :> 10) @@ ("01" :> 1)

\* convert_action and the tuple built from its value (lines 224-228).
convert_action ==
    ("1" :> <<0, 0>>) @@ ("2" :> <<0, 1>>) @@ ("3" :> <<0, 2>>)
        @@ ("4" :> <<1, 0>>) @@ ("5" :> <<1, 1>>) @@ ("6" :> <<1, 2>>)
        @@ ("7" :> <<2, 0>>) @@ ("8" :> <<2, 1>>) @@ ("9" :> <<2, 2>>)

\* A break that forgets the count of moves.
game_over_on_line(self) == self.complete = TRUE

\* The break condition of the drivers (lines 212, 268).
game_over(self) == self.number_of_moves = 9 \/ self.complete = TRUE

\* main.py lines 14-20 (board.play_game(agent)), or the same objects with
\* board.computer_play_game(agent), at the call of the driver.
InitDriver ==
    /\ board = TicTacToe_init
    /\ arrays = [r \in {LiveRef} |-> EmptyGrid]
    /\ \E difficulty \in 1 .. MaxDriverDifficulty : agent = Agent_init(difficulty)
    /\ ret = NoCall
    /\ pc = "idle"
    /\ i = 0
    /\ action_dict = <<>>
    /\ virtual_board = <<>>
    /\ player_move = <<>>
    /\ reward = NoneVal
    /\ \E name \in {"play_game", "computer_play_game"} :
           driver = [name |-> name, at |-> "start", reward |-> NoneVal]

\* self.reset() at the head of a driver (lines 200, 262).
PlayReset ==
    /\ driver.at = "start"
    /\ pc = "idle"
    /\ LET r == reset(board, arrays)
       IN  /\ board' = r.self
           /\ arrays' = r.arrays
    /\ driver' = [driver EXCEPT !.at = "while"]
    /\ UNCHANGED <<agent, ret, pc, i, action_dict, virtual_board, player_move,
                   reward>>

\* The while test of a driver and, when it holds, the call of
\* agent.select_action(self.board, policy='search', board=self) up to its for
\* loop (lines 202-204, 263-265, 58-82).
PlayWhile ==
    /\ driver.at = "while"
    /\ pc = "idle"
    /\ IF playing(board)
       THEN LET possible_moves == move_selection(arrays[board.board])
            IN  /\ driver' = [driver EXCEPT !.at = "search"]
                /\ IF one_move_left(possible_moves)
                   THEN /\ ret' = Returned("search", NoneVal, NoneVal,
                                           Some(possible_moves[1]))
                        /\ pc' = "returned"
                        /\ UNCHANGED <<i, action_dict>>
                   ELSE /\ ret' = Pending("search")
                        /\ pc' = "for"
                        /\ i' = 0
                        /\ action_dict' = <<>>
       ELSE /\ driver' = [driver EXCEPT !.at = "return"]
            /\ UNCHANGED <<ret, pc, i, action_dict>>
    /\ UNCHANGED <<board, arrays, agent, virtual_board, player_move, reward>>

\* _, reward = self.move(action) with the move the search returned, and the
\* break test after it (lines 206-213, 266-269).
PlaySearchMove ==
    /\ driver.at = "search"
    /\ pc = "returned"
    /\ ret.op = "search"
    /\ \E action \in ret.action :
           LET r == move(board, arrays, action)
           IN  /\ board' = r.self
               /\ arrays' = r.arrays
               /\ IF r.ret.exc # ""
                  THEN /\ ret' = r.ret
                       /\ pc' = "raised"
                       /\ driver' = driver
                  ELSE /\ ret' = NoCall
                       /\ pc' = "idle"
                       /\ driver' = [driver EXCEPT
                              !.reward = r.ret.reward,
                              !.at = IF game_over(r.self) THEN "return"
                                     ELSE "opponent"]
    /\ UNCHANGED <<agent, i, action_dict, virtual_board, player_move, reward>>

\* The random opponent of computer_play_game (lines 271-272):
\* action = agent.select_action(self.board); _, reward = self.move(action).
PlayRandomMove ==
    /\ driver.name = "computer_play_game"
    /\ driver.at = "opponent"
    /\ pc = "idle"
    /\ \E a \in select_action_random(arrays[board.board]) :
           IF a.exc # ""
           THEN /\ ret' = a
                /\ pc' = "raised"
                /\ UNCHANGED <<board, arrays, driver>>
           ELSE \E action \in a.action :
                    LET r == move(board, arrays, action)
                    IN  /\ board' = r.self
                        /\ arrays' = r.arrays
                        /\ IF r.ret.exc # ""
                           THEN /\ ret' = r.ret
                                /\ pc' = "raised"
                                /\ driver' = driver
                           ELSE /\ driver' = [driver EXCEPT
                                       !.reward = r.ret.reward, !.at = "while"]
                                /\ UNCHANGED <<ret, pc>>
    /\ UNCHANGED <<agent, i, action_dict, virtual_board, player_move, reward>>

\* One pass of the input loop of play_game (lines 216-238): a key off the
\* board is asked again, a rejected move (reward None) as well.
PlayHumanMove(action) ==
    /\ driver.name = "play_game"
    /\ driver.at = "opponent"
    /\ pc = "idle"
    /\ IF action \notin DOMAIN int
       THEN /\ ret' = Raised("play_game", "ValueError")
            /\ pc' = "raised"
            /\ UNCHANGED <<board, arrays, driver>>
       ELSE IF int[action] < 1 \/ int[action] > 9
       THEN UNCHANGED <<board, arrays, driver, ret, pc>>
       ELSE IF action \notin DOMAIN convert_action
       THEN /\ ret' = Raised("play_game", "KeyError")
            /\ pc' = "raised"
            /\ UNCHANGED <<board, arrays, driver>>
       ELSE LET r == move(board, arrays, convert_action[action])
            IN  /\ board' = r.self
                /\ arrays' = r.arrays
                /\ driver' = [driver EXCEPT
                       !.reward = r.ret.reward,
                       !.at = IF r.ret.reward = NoneVal THEN "opponent"
                              ELSE "while"]
                /\ UNCHANGED <<ret, pc>>
    /\ UNCHANGED <<agent, i, action_dict, virtual_board, player_move, reward>>

\* The end of a driver: computer_play_game returns reward (line 274),
\* play_game reads it to print the outcome and returns None (lines 242-249).
\* An unbound reward raises UnboundLocalError.
PlayReturn ==
    /\ driver.at = "return"
    /\ pc = "idle"
    /\ IF driver.reward = NoneVal
       THEN /\ ret' = Raised(driver.name, "UnboundLocalError")
            /\ pc' = "raised"
       ELSE /\ ret' = Returned(driver.name, NoneVal,
                               IF driver.name = "computer_play_game"
                               THEN driver.reward ELSE NoneVal,
                               NoneVal)
            /\ pc' = "returned"
    /\ driver' = [driver EXCEPT !.at = "end"]
    /\ UNCHANGED <<board, arrays, agent, i, action_dict, virtual_board,
                   player_move, reward>>

NextDriver ==
    \/ PlayReset
    \/ PlayWhile
    \/ Rollout
    \/ SimulateMove
    \/ SimulateReturn
    \/ SearchReturn
    \/ PlaySearchMove
    \/ PlayRandomMove
    \/ \E action \in HumanInputs : PlayHumanMove(action)
    \/ PlayReturn

SpecDriver == InitDriver /\ [][NextDriver]_vars

\* The grid of the live game.
grid == arrays[board.board]

\* The cell of the grid that numpy indexes with position p.
CellOf(p) == <<Wrap(p[1]), Wrap(p[2])>>
OnGrid(p) == InRange(p[1]) /\ InRange(p[2])
NonEmpty(g) == {c \in Cells : g[c] # 5}

\* C1: in every reachable state, move(position) on an occupied cell changes
\* nothing of the game (grid, player, number_of_moves, complete) and returns
\* (None, None).
C1_OccupiedMoveRejected ==
    \A p \in Positions :
        (OnGrid(p) /\ grid[CellOf(p)] # 5)
        => LET r == move(board, arrays, p)
           IN  /\ r.self = board
               /\ r.arrays = arrays
               /\ r.ret.exc = ""
               /\ r.ret.next_state = NoneVal
               /\ r.ret.reward = NoneVal

\* C1 witness: a move was rejected on a board that holds marks.
C1_Witness ==
    /\ ret.op = "move" /\ ret.exc = "" /\ ret.reward = NoneVal
    /\ board.number_of_moves >= 2

\* C2: in every reachable state, move(position) on an Empty cell writes the
\* mark of the player active before the call into that cell and no other, adds
\* 1 to number_of_moves and flips player.
C2_ValidMoveEffect ==
    \A p \in Positions :
        (OnGrid(p) /\ grid[CellOf(p)] = 5)
        => LET r == move(board, arrays, p)
           IN  /\ r.arrays[board.board][CellOf(p)] = (IF board.player = "x" THEN 1 ELSE 0)
               /\ \A c \in Cells \ {CellOf(p)} : r.arrays[board.board][c] = grid[c]
               /\ r.self.board = board.board
               /\ r.self.number_of_moves = board.number_of_moves + 1
               /\ board.player \in {"x", "o"}
               /\ r.self.player = (IF board.player = "x" THEN "o" ELSE "x")
               /\ r.ret.reward # NoneVal

\* C2 witness: both players have moved, the last call being a valid move.
C2_Witness ==
    /\ ret.op = "move" /\ ret.reward # NoneVal
    /\ board.number_of_moves >= 2 /\ board.player = "x"

\* C3: number_of_moves is the number of non-Empty cells, and the number of
\* moves move_selection returns plus number_of_moves is 9.
C3_MoveCount ==
    /\ board.number_of_moves = Cardinality(NonEmpty(grid))
    /\ Len(move_selection(grid)) + board.number_of_moves = 9

\* C3 witness: a full board, after nine valid moves and a rejected tenth.
C3_Witness ==
    /\ board.number_of_moves = 9 /\ move_selection(grid) = <<>>
    /\ ret.op = "move" /\ ret.reward = NoneVal /\ ret.exc = ""

\* C4 (as claimed): every move() made while complete is true is rejected and
\* leaves grid, player and number_of_moves unchanged, also on an Empty cell.
C4_NoMoveAfterComplete ==
    board.complete
    => \A p \in Positions :
           LET r == move(board, arrays, p)
           IN  /\ r.self = board
               /\ r.arrays = arrays
               /\ r.ret.reward = NoneVal

\* C5: once complete is true it stays true over move() and rewards(); only
\* reset() clears it, and then the grid is all Empty, player is 'x' and
\* number_of_moves is 0.
C5_CompleteMonotonic ==
    [][board.complete
       => \/ board'.complete
          \/ /\ ret'.op = "reset"
             /\ arrays'[board'.board] = EmptyGrid
             /\ board'.player = "x"
             /\ board'.number_of_moves = 0]_vars

\* C5 witness: a game that stayed complete over a later valid move.
C5_Witness ==
    /\ board.complete
    /\ ret.op = "move" /\ ret.reward # NoneVal
    /\ \E k \in Idx : row_sum(grid, k) = 3
    /\ \E k \in Idx : row_sum(grid, k) = 0

\* C10: with number_of_moves < 5, rewards() returns 0 and complete is false.
C10_NoRewardBeforeFifthMove ==
    board.number_of_moves < 5
    => /\ rewards_value(grid) = 0
       /\ rewards(board, arrays).reward = 0
       /\ ~board.complete
       /\ ret.reward \subseteq {0}

\* C10 witness: four valid moves have been made.
C10_Witness ==
    /\ board.number_of_moves = 4
    /\ ret.op = "move" /\ ret.reward = {0}

\* The grid of the copy a rollout plays on.
virtual_grid == arrays[virtual_board[1].board]

\* The cells where the copy differs from the live game: the moves of the rollout.
rollout_cells == {c \in Cells : virtual_grid[c] # grid[c]}

\* C6: select_action(policy='search') never mutates the live game: no step of
\* it changes the live object or its grid, and the copy it plays on shares no
\* array with the live game.
C6_SearchLeavesLiveGame ==
    /\ [][ret'.op = "search"
          => /\ board' = board
             /\ arrays'[board.board] = arrays[board.board]]_vars
    /\ [](virtual_board # <<>> => virtual_board[1].board # board.board)

\* C6 witness: a second rollout has played two moves on its copy.
C6_Witness ==
    /\ pc = "while" /\ i >= 1
    /\ virtual_board[1].number_of_moves >= board.number_of_moves + 2
    /\ Cardinality(rollout_cells) >= 2

\* C7 (as claimed): whichever side is active when the rollout starts, the move
\* simulate_game attributes (player_move[0]) is the first move applied to the
\* copy, made by the side active at the start; simulate_game returns it.
C7_FirstMoveAttributed ==
    (pc = "while" /\ virtual_board[1].number_of_moves > board.number_of_moves)
    => /\ player_move # <<>>
       /\ player_move[1] \in rollout_cells
       /\ virtual_grid[player_move[1]] = (IF board.player = "x" THEN 1 ELSE 0)
       /\ (Cardinality(rollout_cells) = 1 => rollout_cells = {player_move[1]})

\* C8 (as claimed): from an in-progress state, either side to move,
\* select_action(policy='search') never fails and returns an Empty cell of the
\* live board.
C8_SearchReturnsEmptyCell ==
    (ret.op = "search" /\ pc \in {"returned", "raised"}
        /\ ~board.complete /\ board.number_of_moves < 9)
    => /\ ret.exc = ""
       /\ ret.action # NoneVal
       /\ \A a \in ret.action : a \in Cells /\ grid[a] = 5

\* C9: with exactly one legal move left, select_action(policy='search')
\* returns that move at once: the call does not enter the rollout loop, makes
\* no copy of the board and appends nothing to the agent's grids.
C9_OneMoveShortcut ==
    [][(pc = "idle" /\ Len(move_selection(grid)) = 1)
       => /\ pc' \in {"returned", "raised"}
          /\ agent' = agent
          /\ virtual_board' = <<>>
          /\ DOMAIN arrays' = {LiveRef}
          /\ (ret'.op = "search"
              => /\ pc' = "returned"
                 /\ ret' = Returned("search", NoneVal, NoneVal,
                                    Some(move_selection(grid)[1]))
                 /\ board' = board
                 /\ arrays' = arrays)]_vars

\* C9 witness: a search on a board with one Empty cell has returned it.
C9_Witness ==
    /\ pc = "returned" /\ ret.op = "search" /\ ret.exc = ""
    /\ Len(move_selection(grid)) = 1
    /\ ret.action = {move_selection(grid)[1]}
    /\ agent.grids = 0

\* C11 (as claimed): a move whose row or column lies outside [0,2] is never
\* mapped onto a cell: the call leaves grid, player, number_of_moves and
\* complete unchanged and reports an error.
C11_OutOfRangeRejected ==
    \A p \in Positions \ Cells :
        LET r == move(board, arrays, p)
        IN  /\ r.self = board
            /\ r.arrays = arrays
            /\ (r.ret.exc # "" \/ r.ret.reward = NoneVal)

\* C12: on a full board select_action fails under both policies: the call
\* ends in an exception, returns no position, and no step of it changes the
\* live game.
C12_FullBoardFails ==
    /\ []((ret.op \in {"random", "search"} /\ pc \in {"returned", "raised"}
              /\ move_selection(grid) = <<>>)
          => (pc = "raised" /\ ret.exc # "" /\ ret.action = NoneVal))
    /\ [][(ret'.op \in {"random", "search"} /\ move_selection(grid) = <<>>)
          => /\ board' = board
             /\ arrays'[board.board] = grid
             /\ ret'.action = NoneVal]_vars

\* C12 witness: a search on a full board has raised out of simulate_game.
C12_Witness ==
    /\ pc = "raised" /\ ret.op = "search" /\ ret.exc = "UnboundLocalError"
    /\ board.number_of_moves = 9 /\ move_selection(grid) = <<>>

\* The live game is in progress: no completed line was found, moves are left.
InProgress == ~board.complete /\ board.number_of_moves < 9

\* C13: a rollout started on an in-progress state applies only legal moves:
\* while the loop runs a move is available, each pass fills one Empty cell of
\* the copy and adds 1 to its number_of_moves, which never exceeds 9 (at most
\* 9 - number_of_moves passes), and the loop is left only when complete is
\* true or number_of_moves is 9.
C13_RolloutTerminates ==
    /\ []((pc = "while" /\ InProgress)
          => /\ virtual_board[1].number_of_moves <= 9
             /\ virtual_board[1].number_of_moves
                    = board.number_of_moves + Cardinality(rollout_cells)
             /\ (playing(virtual_board[1]) => move_selection(virtual_grid) # <<>>))
    /\ [][(pc = "while" /\ InProgress)
          => /\ (pc' = "while"
                 => /\ virtual_board'[1].number_of_moves
                           = virtual_board[1].number_of_moves + 1
                    /\ \E c \in Cells :
                           /\ virtual_grid[c] = 5
                           /\ arrays'[virtual_board'[1].board][c] # 5
                           /\ \A e \in Cells \ {c} :
                                  arrays'[virtual_board'[1].board][e] = virtual_grid[e])
             /\ (pc' # "while"
                 => (virtual_board[1].complete
                        \/ virtual_board[1].number_of_moves = 9))]_vars

\* C13 witness: a rollout of an in-progress game has filled the board without
\* a completed line, after at least two moves.
C13_Witness ==
    /\ pc = "while" /\ InProgress
    /\ virtual_board[1].number_of_moves = 9 /\ ~virtual_board[1].complete
    /\ Cardinality(rollout_cells) >= 2

\* The eight lines of the grid, and the lines a mark (1 for 'x', 0 for 'o')
\* holds entirely.
Lines ==
    {{<<r, k>> : k \in Idx} : r \in Idx} \cup {{<<k, c>> : k \in Idx} : c \in Idx}
        \cup {{<<k, k>> : k \in Idx}, {<<k, 2 - k>> : k \in Idx}}
HoldsLine(g, mark) == \E l \in Lines : \A c \in l : g[c] = mark
HasLine(g) == HoldsLine(g, 1) \/ HoldsLine(g, 0)

\* C14: complete is true exactly when the grid holds a completed line; a full
\* board without one leaves complete false.
C14_CompleteIffLine ==
    board.complete <=> HasLine(grid)

\* C14 witness: the ninth move filled the board without completing a line.
C14_Witness ==
    /\ board.number_of_moves = 9 /\ ~board.complete /\ ~HasLine(grid)
    /\ ret.op = "move" /\ ret.reward = {0}

\* C16: the move a search returns after its rollouts is a key of action_dict
\* whose accumulated value is maximal, the first inserted among those; each
\* rollout adds its reward to the value of its attributed move, a new key
\* going last with 0 + reward, and touches no other key.
C16_ArgmaxFirstInserted ==
    /\ [][(pc = "for" /\ pc' = "returned")
          => \E k \in 1 .. Len(action_dict) :
                 /\ ret'.action = {action_dict[k][1]}
                 /\ \A m \in 1 .. Len(action_dict) :
                        action_dict[m][2] <= action_dict[k][2]
                 /\ \A m \in 1 .. k - 1 : action_dict[m][2] < action_dict[k][2]]_vars
    /\ [][(pc = "while" /\ pc' = "for")
          => LET old == {k \in 1 .. Len(action_dict) :
                            action_dict[k][1] = player_move[1]}
             IN  /\ \A k \in 1 .. Len(action_dict) \ old :
                        action_dict'[k] = action_dict[k]
                 /\ \A k \in old :
                        /\ Len(action_dict') = Len(action_dict)
                        /\ action_dict'[k][1] = player_move[1]
                        /\ {action_dict'[k][2] - action_dict[k][2]} = reward
                 /\ (old = {}
                     => /\ Len(action_dict') = Len(action_dict) + 1
                        /\ action_dict'[Len(action_dict')][1] = player_move[1]
                        /\ {action_dict'[Len(action_dict')][2]} = reward)]_vars

\* C16 witness: two rollouts attributed to two moves with equal values are
\* about to be compared.
C16_Witness ==
    /\ pc = "for" /\ i = agent.difficulty /\ i = 2
    /\ Len(action_dict) = 2
    /\ action_dict[1][2] = action_dict[2][2]
    /\ action_dict[1][2] # 0

\* The evaluation the text gives: the three columns, then the three rows,
\* then the main diagonal, then the anti-diagonal; the first completed line
\* found decides.
RECURSIVE first_line(_, _)
first_line(g, sums) ==
    IF sums = <<>> THEN 0
    ELSE IF Head(sums) = 3 THEN 1
    ELSE IF Head(sums) = 0 THEN -1
    ELSE first_line(g, Tail(sums))
columns_rows_diagonals(g) ==
    first_line(g, <<col_sum(g, 0), col_sum(g, 1), col_sum(g, 2),
                    row_sum(g, 0), row_sum(g, 1), row_sum(g, 2),
                    fwd_diag(g), bwd_diag(g)>>)

\* An evaluation that checks every line of 'o' before every line of 'x'.
o_lines_first(g) ==
    IF HoldsLine(g, 0) THEN -1 ELSE IF HoldsLine(g, 1) THEN 1 ELSE 0

\* C18 (as claimed): in every state reachable by move() calls rewards()
\* returns what these two evaluations return, and no state holds completed
\* lines of both players.
C18_OrderNotObservable ==
    /\ rewards_value(grid) = columns_rows_diagonals(grid)
    /\ rewards_value(grid) = o_lines_first(grid)
    /\ ~(HoldsLine(grid, 1) /\ HoldsLine(grid, 0))

\* The cells holding a mark.
Marks(g, mark) == {c \in Cells : g[c] = mark}

\* C19: player is 'x' exactly when number_of_moves is even and 'o' exactly
\* when it is odd, and the grid holds as many marks of 'x' as of 'o' when 'x'
\* is to move, one more when 'o' is to move.
C19_TurnParity ==
    /\ board.player \in {"x", "o"}
    /\ (board.player = "x" <=> board.number_of_moves % 2 = 0)
    /\ (board.player = "o" <=> board.number_of_moves % 2 = 1)
    /\ Cardinality(Marks(grid, 1)) - Cardinality(Marks(grid, 0))
           = (IF board.player = "x" THEN 0 ELSE 1)

\* C19 witness: nine moves were made, five of them by 'x', and a tenth was
\* rejected.
C19_Witness ==
    /\ board.number_of_moves = 9 /\ board.player = "o"
    /\ Cardinality(Marks(grid, 1)) = 5
    /\ ret.op = "move" /\ ret.reward = NoneVal /\ ret.exc = ""

\* reward r is the outcome of the final grid g: +1 exactly when 'x' holds a
\* completed line, -1 exactly when 'o' does, 0 exactly when g is full without
\* a completed line.
IsOutcomeOf(r, g) ==
    /\ r \in {1, 0, -1}
    /\ (r = 1 <=> HoldsLine(g, 1))
    /\ (r = -1 <=> HoldsLine(g, 0))
    /\ (r = 0 <=> (move_selection(g) = <<>> /\ ~HasLine(g)))

\* C15: when simulate_game, started on a copy of an in-progress game, leaves
\* its loop, its reward is bound and is the outcome of the final grid of the
\* copy; the reward computer_play_game returns is the outcome of the final
\* grid of the game.
C15_PlayoutReward ==
    /\ (pc = "while" /\ InProgress /\ ~playing(virtual_board[1]))
           => \E r \in reward : IsOutcomeOf(r, virtual_grid)
    /\ (pc = "returned" /\ ret.op = "computer_play_game")
           => \E r \in ret.reward : IsOutcomeOf(r, grid)

\* C15 witness: computer_play_game has returned 0 on a full board.
C15_Witness ==
    /\ pc = "returned" /\ ret.op = "computer_play_game"
    /\ ret.reward = {0}
    /\ board.number_of_moves = 9 /\ ~board.complete

\* A step of a driver applies a move to the live game.
MoveApplied == arrays'[LiveRef] # arrays[LiveRef]

\* C17: a driver asks no side for a move once complete is true or
\* number_of_moves is 9; every move it applies is applied to a game in
\* progress, fills one Empty cell and adds 1 to number_of_moves, which never
\* exceeds 9; the move of the search agent is applied exactly when 'x' is to
\* move and places 1, the move of the opponent exactly when 'o' is to move
\* and places 0, so the sides alternate with the search agent first.
C17_DriverStopsAtTerminal ==
    /\ [](driver.at \in {"search", "opponent"} => playing(board))
    /\ [](/\ board.number_of_moves <= 9
          /\ board.number_of_moves = Cardinality(NonEmpty(grid)))
    /\ [][MoveApplied
          => /\ playing(board)
             /\ driver.at \in {"search", "opponent"}
             /\ (driver.at = "search" <=> board.player = "x")
             /\ (driver.at = "opponent" <=> board.player = "o")
             /\ board'.number_of_moves = board.number_of_moves + 1
             /\ \E c \in Cells :
                    /\ grid[c] = 5
                    /\ arrays'[LiveRef][c] = (IF driver.at = "search" THEN 1 ELSE 0)
                    /\ \A e \in Cells \ {c} : arrays'[LiveRef][e] = grid[e]]_vars

\* C17 witness: play_game has ended on a full board without a completed line,
\* after the ninth move, made by the search agent.
C17_Witness ==
    /\ driver.name = "play_game" /\ driver.at = "end" /\ pc = "returned"
    /\ board.number_of_moves = 9 /\ ~board.complete /\ board.player = "o"
====
